---- MODULE Spec2Model ----
(***************************************************************************)
(* BigQueryAgentAnalyticsPlugin (google/adk/plugins/                       *)
(* bigquery_logging_plugin.py): the lifecycle hooks, the filter, the       *)
(* custom content formatter, the lazily initialized BigQuery sink and the  *)
(* row insert, as a state machine.                                         *)
(*                                                                         *)
(* A hook is a coroutine of one invocation; _sync_log runs in a worker     *)
(* thread started by asyncio.to_thread and the coroutine awaits it.        *)
(* Worker threads of different hook calls interleave freely.               *)
(***************************************************************************)
EXTENDS Naturals, Sequences, FiniteSets, TLC

(* ---------------------------------------------------------------- bounds *)

\* concurrently running invocations
NumInvocations == 2

\* lifecycle points (hook calls) fired in all, by whichever invocations
MaxCalls == 3

Invocations == 1 .. NumInvocations

CallIds == 1 .. MaxCalls

(* ------------------------------------------------------------ the values *)

\* Python's None (distinct from the string "None" that _format_content returns)
None == "<None>"

\* an Optional[List[str]]: absent (None) or a list, of which only membership is used
AbsentList == [present |-> FALSE, items |-> {}]

SomeList(s) == [present |-> TRUE, items |-> s]

\* the event types the configured lists of the model range over
ListedTypes == {"LLM_REQUEST", "LLM_RESPONSE"}

ListChoices == {AbsentList} \cup {SomeList(s) : s \in SUBSET ListedTypes}

\* content_formatter: absent, a redacting function, or a function that raises
Formatters == {None, "redact", "raising"}

BigQueryLoggerConfig ==
    [enabled : BOOLEAN,
     event_allowlist : ListChoices,
     event_denylist : ListChoices,
     content_formatter : Formatters]

\* what a call into google.auth / google.cloud.bigquery can do: return, raise
\* GoogleAuthError or GoogleCloudError, or raise any other exception
CallOutcomes == {"ok", "google_error", "other_error"}

\* insert_rows_json can also return a non-empty per-row error list
InsertOutcomes == CallOutcomes \cup {"row_errors"}

Hooks ==
    {"on_user_message_callback", "before_run_callback", "on_event_callback",
     "after_run_callback", "before_agent_callback", "after_agent_callback",
     "before_model_callback", "after_model_callback", "before_tool_callback",
     "after_tool_callback", "on_model_error_callback", "on_tool_error_callback"}

\* the hooks of one model turn, in the order the host fires them
ModelTurn == <<"before_model_callback", "after_model_callback", "on_model_error_callback">>

TurnHook(k) == ModelTurn[((k - 1) % Len(ModelTurn)) + 1]

RowKeys ==
    {"timestamp", "event_type", "agent", "session_id", "invocation_id",
     "user_id", "content", "error_message"}

(* ------------------------------------------------- strings and payloads *)

\* Python truthiness of an Optional[str]
Truthy(s) == s # None /\ s # ""

\* the white space str.strip() removes, as far as the inputs use it
Whitespace == {" ", "\t", "\n", "\r"}

RECURSIVE LStrip(_)
LStrip(s) ==
    IF Len(s) > 0 /\ SubSeq(s, 1, 1) \in Whitespace THEN LStrip(SubSeq(s, 2, Len(s))) ELSE s

RECURSIVE RStrip(_)
RStrip(s) ==
    IF Len(s) > 0 /\ SubSeq(s, Len(s), Len(s)) \in Whitespace
    THEN RStrip(SubSeq(s, 1, Len(s) - 1))
    ELSE s

\* str.strip()
Strip(s) == RStrip(LStrip(s))

\* sep.join(parts)
RECURSIVE Join(_, _)
Join(parts, sep) ==
    IF Len(parts) = 0 THEN ""
    ELSE IF Len(parts) = 1 THEN parts[1]
    ELSE parts[1] \o sep \o Join(Tail(parts), sep)

\* the args of a FunctionCall and the response of a FunctionResponse
CallArgs == "{'city': 'Oslo'}"

ResponsePayload == "{'degrees': 7}"

\* a types.Part: each of the four fields is None or set; a function call and
\* a function response are modelled by their name, their payload beside it
Part(text, call, response, code) ==
    [text |-> text, function_call |-> call, function_response |-> response,
     code_execution_result |-> code,
     function_call_args |-> IF call = None THEN None ELSE CallArgs,
     function_response_response |-> IF response = None THEN None ELSE ResponsePayload]

TextPart(t) == Part(t, None, None, None)

CallPart(name) == Part(None, name, None, None)

ResponsePart(name) == Part(None, None, name, None)

\* a types.Content is modelled by its parts; NoContent is a Content of None
NoContent == [absent |-> TRUE, parts |-> <<>>]

Content(parts) == [absent |-> FALSE, parts |-> parts]

\* `content and content.parts`
HasParts(content) == ~content.absent /\ Len(content.parts) > 0

FormatContentMaxLength == 200

FormatArgsMaxLength == 300

\* a text as long as the limit already truncated
FormatPartOffByOne(part, max_length) ==
    IF Truthy(part.text)
    THEN LET text == Strip(part.text)
         IN  "text: '"
             \o (IF Len(text) >= max_length THEN SubSeq(text, 1, max_length) \o "..." ELSE text)
             \o "'"
    ELSE IF part.function_call # None THEN "function_call: " \o part.function_call
    ELSE IF part.function_response # None THEN "function_response: " \o part.function_response
    ELSE IF part.code_execution_result # None THEN "code_execution_result"
    ELSE "other_part"

\* lines 91-105: one part of a content
FormatPart(part, max_length) ==
    IF Truthy(part.text)
    THEN LET text == Strip(part.text)
         IN  "text: '"
             \o (IF Len(text) > max_length THEN SubSeq(text, 1, max_length) \o "..." ELSE text)
             \o "'"
    ELSE IF part.function_call # None THEN "function_call: " \o part.function_call
    ELSE IF part.function_response # None THEN "function_response: " \o part.function_response
    ELSE IF part.code_execution_result # None THEN "code_execution_result"
    ELSE "other_part"

\* the summaries separated by commas
FormatContentCommas(content, max_length) ==
    IF ~HasParts(content) THEN "None"
    ELSE Join([i \in 1 .. Len(content.parts) |-> FormatPart(content.parts[i], max_length)], ", ")

\* lines 88-90 and 106
_format_content(content, max_length) ==
    IF ~HasParts(content) THEN "None"
    ELSE Join([i \in 1 .. Len(content.parts) |-> FormatPart(content.parts[i], max_length)], " | ")

\* the truncation marked like that of a text, without the closing brace
FormatArgsNoBrace(args, max_length) ==
    IF args = None \/ args = "{}" THEN "{}"
    ELSE IF Len(args) > max_length THEN SubSeq(args, 1, max_length) \o "..."
    ELSE args

\* a dictionary is modelled by its display string str(args); None is an absent one
_format_args(args, max_length) ==
    IF args = None \/ args = "{}" THEN "{}"
    ELSE IF Len(args) > max_length THEN SubSeq(args, 1, max_length) \o "...}"
    ELSE args

(* ---------------------------------------------------- the hooks' inputs *)

\* the context a hook receives for invocation p
AgentName == "root_agent"

SessionId(p) == <<"session", p>>

InvocationId(p) == <<"invocation", p>>

UserId(p) == <<"user", p>>

\* the instant a lifecycle point fires: its ordinal within the invocation
Now(k) == k

\* llm_request.config.system_instruction: None, a str, a list of Parts, a
\* pydantic object (iterable, its items carry no .text) or any other object
NoInstruction == [kind |-> "none", text |-> "", parts |-> <<>>]

StrInstruction(t) == [kind |-> "str", text |-> t, parts |-> <<>>]

PartsInstruction(parts) == [kind |-> "list", text |-> "", parts |-> parts]

ObjectInstruction(display) == [kind |-> "object", text |-> display, parts |-> <<>>]

\* `if si:`
InstructionTruthy(si) ==
    CASE si.kind = "none" -> FALSE
      [] si.kind = "str" -> si.text # ""
      [] si.kind = "list" -> Len(si.parts) > 0
      [] OTHER -> TRUE

NoGenConfig ==
    [absent |-> TRUE, system_instruction |-> NoInstruction, temperature |-> None,
     top_p |-> None, top_k |-> None, max_output_tokens |-> None]

GenConfig(si, temperature, max_output_tokens) ==
    [absent |-> FALSE, system_instruction |-> si, temperature |-> temperature,
     top_p |-> None, top_k |-> None, max_output_tokens |-> max_output_tokens]

LlmRequests ==
    {[model |-> "gemini-2.5-flash",
      config |-> GenConfig(StrInstruction("Be brief."), "0.2", None),
      tools_dict |-> <<"google_search">>],
     [model |-> None,
      config |-> GenConfig(PartsInstruction(<<TextPart("Be brief."), CallPart("f")>>), None, None),
      tools_dict |-> <<>>]}

NoUsage == [absent |-> TRUE, prompt_token_count |-> None,
            candidates_token_count |-> None, total_token_count |-> None]

Usage(prompt, candidates, total) ==
    [absent |-> FALSE, prompt_token_count |-> prompt,
     candidates_token_count |-> candidates, total_token_count |-> total]

LlmResponses ==
    {[content |-> Content(<<TextPart("Done.")>>), usage_metadata |-> Usage("3", "2", "5"),
      error_code |-> None, error_message |-> None],
     [content |-> Content(<<CallPart("google_search")>>), usage_metadata |-> NoUsage,
      error_code |-> "429", error_message |-> "quota"]}

UserMessages == {Content(<<TextPart("hello")>>), NoContent}

Tools == {[name |-> "google_search", description |-> "web search"]}

ToolArgs == {"{'query': 'adk'}", "{}"}

ToolResults == {"{'hits': 3}", None}

\* str(error) of the exception handed to an error hook
Errors == {"timeout", ""}

\* an Event: its author, its content and its error_message
Events ==
    {[author |-> a, content |-> c, error_message |-> e, timestamp |-> 7] :
        a \in {"user", AgentName},
        c \in {NoContent, Content(<<TextPart("hi")>>), Content(<<CallPart("f")>>),
               Content(<<ResponsePart("f")>>)},
        e \in {None, "boom"}}

Payloads(h) ==
    CASE h = "on_user_message_callback" -> {[user_message |-> m] : m \in UserMessages}
      [] h \in {"before_model_callback"} -> {[llm_request |-> r] : r \in LlmRequests}
      [] h = "after_model_callback" -> {[llm_response |-> r] : r \in LlmResponses}
      [] h = "on_model_error_callback" ->
            {[llm_request |-> r, error |-> e] : r \in LlmRequests, e \in Errors}
      [] h = "before_tool_callback" -> {[tool |-> t, tool_args |-> a] : t \in Tools, a \in ToolArgs}
      [] h = "after_tool_callback" ->
            {[tool |-> t, tool_args |-> a, result |-> r] :
                t \in Tools, a \in ToolArgs, r \in ToolResults}
      [] h = "on_tool_error_callback" ->
            {[tool |-> t, tool_args |-> a, error |-> e] :
                t \in Tools, a \in ToolArgs, e \in Errors}
      [] h = "on_event_callback" -> {[event |-> e] : e \in Events}
      [] OTHER -> {[none |-> TRUE]}

(* ------------------------------------------------- the record builders *)

\* the display of a value inside an f-string
Display(v) == IF v = None THEN "None" ELSE v

IsCall(part) == part.function_call # None

IsResponse(part) == part.function_response # None

\* event.get_function_calls() / event.get_function_responses(), as non-empty or not
HasFunctionCalls(event) ==
    HasParts(event.content) /\ \E i \in 1 .. Len(event.content.parts) : IsCall(event.content.parts[i])

HasFunctionResponses(event) ==
    HasParts(event.content)
    /\ \E i \in 1 .. Len(event.content.parts) : IsResponse(event.content.parts[i])

\* the classifier looking for a function response before a function call
GetEventTypeResponseFirst(event) ==
    IF event.author = "user" THEN "USER_INPUT"
    ELSE IF HasFunctionResponses(event) THEN "TOOL_RESULT"
    ELSE IF HasFunctionCalls(event) THEN "TOOL_CALL"
    ELSE IF HasParts(event.content) THEN "MODEL_RESPONSE"
    ELSE IF Truthy(event.error_message) THEN "ERROR"
    ELSE "SYSTEM"

_get_event_type(event) ==
    IF event.author = "user" THEN "USER_INPUT"
    ELSE IF HasFunctionCalls(event) THEN "TOOL_CALL"
    ELSE IF HasFunctionResponses(event) THEN "TOOL_RESULT"
    ELSE IF HasParts(event.content) THEN "MODEL_RESPONSE"
    ELSE IF Truthy(event.error_message) THEN "ERROR"
    ELSE "SYSTEM"

\* the six keys every hook sets
BaseDict(p, k, event_type, agent) ==
    [timestamp |-> Now(k), event_type |-> event_type, agent |-> agent,
     session_id |-> SessionId(p), invocation_id |-> InvocationId(p), user_id |-> UserId(p)]

Built(d) == [raised |-> FALSE, event_dict |-> d]

\* an exception raised while the hook builds its record, before any try
BuildRaises == [raised |-> TRUE, event_dict |-> <<>>]

\* before_model_callback's system_instruction_text; "".join raises TypeError on
\* a Part whose text is None
SystemInstructionText(config) ==
    IF config.absent THEN [raised |-> FALSE, text |-> "None"]
    ELSE LET si == config.system_instruction
         IN  IF ~InstructionTruthy(si) THEN [raised |-> FALSE, text |-> "Empty"]
             ELSE IF si.kind = "str" THEN [raised |-> FALSE, text |-> si.text]
             ELSE IF si.kind = "list"
             THEN IF \E i \in 1 .. Len(si.parts) : si.parts[i].text = None
                  THEN [raised |-> TRUE, text |-> ""]
                  ELSE [raised |-> FALSE,
                        text |-> Join([i \in 1 .. Len(si.parts) |-> si.parts[i].text], "")]
             ELSE IF si.kind = "object" THEN [raised |-> FALSE, text |-> ""]
             ELSE [raised |-> FALSE, text |-> si.text]

ParamNames == <<"temperature", "top_p", "top_k", "max_output_tokens">>

ParamIsSet(config, name) == config[name] # None

\* params_to_log rendered as "k=v" items, in the order the code probes them
ParamsToLog(config) ==
    LET Set(name) == ParamIsSet(config, name)
        names == SelectSeq(ParamNames, Set)
    IN  [i \in 1 .. Len(names) |-> names[i] \o "=" \o config[names[i]]]

\* str(list(tools_dict.keys()))
KeysDisplay(names) == "[" \o Join([i \in 1 .. Len(names) |-> "'" \o names[i] \o "'"], ", ") \o "]"

BeforeModelContent(llm_request) ==
    LET si == SystemInstructionText(llm_request.config)
        params == IF llm_request.config.absent THEN <<>> ELSE ParamsToLog(llm_request.config)
        content_parts ==
            <<"Model: " \o (IF Truthy(llm_request.model) THEN llm_request.model ELSE "default"),
              "System Prompt: " \o si.text>>
            \o (IF Len(params) > 0 THEN <<"Params: {" \o Join(params, ", ") \o "}">> ELSE <<>>)
            \o (IF Len(llm_request.tools_dict) > 0
                THEN <<"Available Tools: " \o KeysDisplay(llm_request.tools_dict)>>
                ELSE <<>>)
    IN  [raised |-> si.raised, text |-> Join(content_parts, " | ")]

AfterModelContent(llm_response) ==
    LET content == llm_response.content
        is_tool_call ==
            HasParts(content) /\ \E i \in 1 .. Len(content.parts) : IsCall(content.parts[i])
        calls_ == SelectSeq(content.parts, IsCall)
        fc_names == [i \in 1 .. Len(calls_) |-> calls_[i].function_call]
        usage == llm_response.usage_metadata
        content_parts ==
            (IF is_tool_call
             THEN <<"Tool Name: " \o Join(fc_names, ", ")>>
             ELSE <<"Tool Name: text_response, " \o _format_content(content, FormatContentMaxLength)>>)
            \o (IF ~usage.absent
                THEN <<"Token Usage: {prompt: " \o Display(usage.prompt_token_count)
                       \o ", candidates: " \o Display(usage.candidates_token_count)
                       \o ", total: " \o Display(usage.total_token_count) \o "}">>
                ELSE <<>>)
    IN  Join(content_parts, " | ")

\* json.dumps of one part's model_dump, abridged to the field that is set
PartJson(part) ==
    IF part.text # None THEN "{\"text\": \"" \o part.text \o "\"}"
    ELSE IF IsCall(part)
    THEN "{\"function_call\": {\"name\": \"" \o part.function_call
         \o "\", \"args\": " \o part.function_call_args \o "}}"
    ELSE IF IsResponse(part)
    THEN "{\"function_response\": {\"name\": \"" \o part.function_response
         \o "\", \"response\": " \o part.function_response_response \o "}}"
    ELSE "{}"

PartsJson(parts) == "[" \o Join([i \in 1 .. Len(parts) |-> PartJson(parts[i])], ", ") \o "]"

on_user_message_callback(p, k, a) ==
    Built(BaseDict(p, k, "USER_MESSAGE_RECEIVED", AgentName)
          @@ ("content" :> ("User Content: " \o _format_content(a.user_message, FormatContentMaxLength))))

\* the start of a run logged under the type of its end
BeforeRunAsCompleted(p, k, a) ==
    Built(BaseDict(p, k, "INVOCATION_COMPLETED", AgentName) @@ ("content" :> None))

\* lines 310-324
before_run_callback(p, k, a) ==
    Built(BaseDict(p, k, "INVOCATION_STARTING", AgentName) @@ ("content" :> None))

on_event_callback(p, k, a) ==
    Built([BaseDict(p, k, _get_event_type(a.event), a.event.author)
              EXCEPT !.timestamp = a.event.timestamp]
          @@ ("content" :> (IF HasParts(a.event.content)
                            THEN PartsJson(a.event.content.parts) ELSE None))
          @@ ("error_message" :> a.event.error_message))

after_run_callback(p, k, a) ==
    Built(BaseDict(p, k, "INVOCATION_COMPLETED", AgentName) @@ ("content" :> None))

before_agent_callback(p, k, a) ==
    Built(BaseDict(p, k, "AGENT_STARTING", AgentName)
          @@ ("content" :> ("Agent Name: " \o AgentName)))

after_agent_callback(p, k, a) ==
    Built(BaseDict(p, k, "AGENT_COMPLETED", AgentName)
          @@ ("content" :> ("Agent Name: " \o AgentName)))

before_model_callback(p, k, a) ==
    LET final_content == BeforeModelContent(a.llm_request)
    IN  IF final_content.raised THEN BuildRaises
        ELSE Built(BaseDict(p, k, "LLM_REQUEST", AgentName)
                   @@ ("content" :> final_content.text))

after_model_callback(p, k, a) ==
    Built(BaseDict(p, k, "LLM_RESPONSE", AgentName)
          @@ ("content" :> AfterModelContent(a.llm_response))
          @@ ("error_message" :> (IF Truthy(a.llm_response.error_code)
                                  THEN a.llm_response.error_message ELSE None)))

before_tool_callback(p, k, a) ==
    Built(BaseDict(p, k, "TOOL_STARTING", AgentName)
          @@ ("content" :> ("Tool Name: " \o a.tool.name \o ", Description: "
                            \o a.tool.description \o ", Arguments: "
                            \o _format_args(a.tool_args, FormatArgsMaxLength))))

after_tool_callback(p, k, a) ==
    Built(BaseDict(p, k, "TOOL_COMPLETED", AgentName)
          @@ ("content" :> ("Tool Name: " \o a.tool.name \o ", Result: "
                            \o _format_args(a.result, FormatArgsMaxLength))))

on_model_error_callback(p, k, a) ==
    Built(BaseDict(p, k, "LLM_ERROR", AgentName) @@ ("error_message" :> a.error))

\* the tool error logged without the tool's arguments
ToolErrorWithoutArgs(p, k, a) ==
    Built(BaseDict(p, k, "TOOL_ERROR", AgentName)
          @@ ("content" :> ("Tool Name: " \o a.tool.name))
          @@ ("error_message" :> a.error))

\* lines 590-612
on_tool_error_callback(p, k, a) ==
    Built(BaseDict(p, k, "TOOL_ERROR", AgentName)
          @@ ("content" :> ("Tool Name: " \o a.tool.name \o ", Arguments: "
                            \o _format_args(a.tool_args, FormatArgsMaxLength)))
          @@ ("error_message" :> a.error))

\* the record hook h builds for call k of invocation p from its arguments a
BuildEventDict(h, p, k, a) ==
    CASE h = "on_user_message_callback" -> on_user_message_callback(p, k, a)
      [] h = "before_run_callback" -> before_run_callback(p, k, a)
      [] h = "on_event_callback" -> on_event_callback(p, k, a)
      [] h = "after_run_callback" -> after_run_callback(p, k, a)
      [] h = "before_agent_callback" -> before_agent_callback(p, k, a)
      [] h = "after_agent_callback" -> after_agent_callback(p, k, a)
      [] h = "before_model_callback" -> before_model_callback(p, k, a)
      [] h = "after_model_callback" -> after_model_callback(p, k, a)
      [] h = "before_tool_callback" -> before_tool_callback(p, k, a)
      [] h = "after_tool_callback" -> after_tool_callback(p, k, a)
      [] h = "on_model_error_callback" -> on_model_error_callback(p, k, a)
      [] h = "on_tool_error_callback" -> on_tool_error_callback(p, k, a)

(* ------------------------------------------- filter, formatter and sink *)

\* the enabled flag ignored
EnabledIgnored(cfg) == TRUE

\* `self._config.enabled`, read at lines 171 and 222
IsEnabled(cfg) == cfg.enabled

\* `is not None` in place of truthiness: an empty list counts as a list
ListPresent(l) == l.present

\* truthiness of an Optional[List[str]]: None and [] are both falsy
ListTruthy(l) == l.present /\ l.items # {}

\* lines 228-232: the denylist check
Denied(cfg, event_type) ==
    ListTruthy(cfg.event_denylist) /\ event_type \in cfg.event_denylist.items

\* the allowlist check left out
AllowlistSkipped(cfg, event_type) == FALSE

\* lines 235-239: the allowlist check
NotAllowed(cfg, event_type) ==
    ListTruthy(cfg.event_allowlist) /\ event_type \notin cfg.event_allowlist.items

\* the allowlist consulted first: an allowlisted type passes whatever the denylist says
AdmittedAllowlistFirst(cfg, ev) ==
    IF ~IsEnabled(cfg) THEN FALSE
    ELSE IF ListTruthy(cfg.event_allowlist) /\ ev["event_type"] \in cfg.event_allowlist.items
    THEN TRUE
    ELSE IF Denied(cfg, ev["event_type"]) THEN FALSE
    ELSE IF NotAllowed(cfg, ev["event_type"]) THEN FALSE
    ELSE TRUE

\* no filter: every record goes on to the formatter and the sink
AdmittedAlways(cfg, ev) == TRUE

\* lines 222-239: whether _log_to_bigquery_async goes on past its early returns
Admitted(cfg, ev) ==
    IF ~IsEnabled(cfg) THEN FALSE
    ELSE IF Denied(cfg, ev["event_type"]) THEN FALSE
    ELSE IF NotAllowed(cfg, ev["event_type"]) THEN FALSE
    ELSE TRUE

\* the formatter kept for records whose content is a string
FormatterAppliesToStrings(cfg, ev) ==
    cfg.content_formatter # None /\ "content" \in DOMAIN ev /\ ev["content"] # None

\* line 242: the formatter is called only when one is configured and the
\* record has a content key
FormatterApplies(cfg, ev) == cfg.content_formatter # None /\ "content" \in DOMAIN ev

\* the configured function applied to a content value
CallFormatter(f, content) ==
    IF f = "redact" THEN [raised |-> FALSE, value |-> "[REDACTED]"]
    ELSE [raised |-> TRUE, value |-> None]

\* a failed formatter call clearing the content
AfterFormatterClears(ev, r) == [ev EXCEPT !["content"] = r.value]

\* lines 243-252: the assignment happens only when the call returned
AfterFormatter(ev, r) == IF r.raised THEN ev ELSE [ev EXCEPT !["content"] = r.value]

\* lines 212-215: what _ensure_initialized_sync's except clause catches
InitCatches(outcome) == outcome = "google_error"

\* lines 285-288: what the except clause around the await catches
LogCatches(ended) == ended = "raised_google"

\* lines 262-271
default_row(k) ==
    [timestamp |-> Now(k), event_type |-> None, agent |-> None, session_id |-> None,
     invocation_id |-> None, user_id |-> None, content |-> None, error_message |-> None]

\* the record written as it is, without the template
MergeEventOnly(d1, d2) == d2

\* {**d1, **d2}
Merge(d1, d2) ==
    [key \in DOMAIN d1 \cup DOMAIN d2 |-> IF key \in DOMAIN d2 THEN d2[key] ELSE d1[key]]

\* the n-th bigquery.Client object the plugin creates
Client(n) == "bigquery.Client " \o ToString(n)

\* the lock is free
Unlocked == <<>>

\* a dictionary that is gone (a returned call's locals)
NoDict == <<>>

\* a worker thread: where it is, the event_dict of its closure, its insert_row
NoThread == [pc |-> "none", ev |-> NoDict, row |-> NoDict]

\* no hook is running: a returned call's frame is gone
NoFrame == [hook |-> None, args |-> [none |-> TRUE]]

\* no helper function applied yet
NoProbe == [fn |-> None, input |-> None, out |-> None]

\* no hook call yet
NoCall == [event_type |-> None, decision |-> "pending", formatter |-> "not_called"]

\* how a worker thread can have ended
Ended == {"finished", "finished_errors", "raised_google", "raised_other"}

\* a hook handing a value back to the runner, which would take it as the reply
HookReturnsValue(ev) == ev["event_type"]

\* the `return None` that ends every hook (lines 308, 324, 349, 365, 381, 397,
\* 464, 524, 547, 568, 588, 612)
HookReturn(ev) == None

\* the thread started and not awaited
AwaitDoneAtOnce(t) == TRUE

\* line 284: the coroutine resumes when its thread has ended
AwaitDone(t) == t.pc \in Ended

\* the lock still held after the with block
ExitWithHolding(lock) == lock

\* leaving `with self._client_init_lock:` (by return, by exception or at its
\* end) releases the lock
ExitWith(lock) == Unlocked

VARIABLES
    config,            \* self._config
    bq_client,         \* self._bq_client: None or the client handle
    client_init_lock,  \* self._client_init_lock: None or the holding thread <<p, k>>
    init_done,         \* self._init_done
    init_succeeded,    \* self._init_succeeded
    pc,                \* pc[p]: where the hook coroutine of invocation p is
    calls,             \* calls[p]: hook calls invocation p has made so far
    event_dict,        \* event_dict[p]: the record of the hook call in progress
    result,            \* result[p]: how the last hook call of p ended
    thr,               \* thr[p][k]: the worker thread running _sync_log for call k of p
    last,              \* last[p]: the latest hook call of p: its event type, the filter's
                       \* decision and what the content formatter did
    initCount,         \* how often the initialization body was entered
    inserts,           \* the hook calls <<p, k>> whose row was handed to insert_rows_json, in order
    call,              \* call[p]: the hook invocation p is inside and the arguments it received
    probe              \* the latest application of a helper function: its input and its output

vars ==
    <<config, bq_client, client_init_lock, init_done, init_succeeded, pc, calls,
      event_dict, result, thr, last, initCount, inserts, call, probe>>

(* ------------------------------------------------------------ the start *)

\* the readiness test looking at the client only
ClientExists == bq_client # None

\* line 257
SinkReady == init_succeeded /\ bq_client # None

\* the shape of the state
TypeOK ==
    /\ config \in BigQueryLoggerConfig
    /\ bq_client \in {None} \cup {Client(n) : n \in 1 .. MaxCalls}
    /\ init_done \in BOOLEAN
    /\ init_succeeded \in BOOLEAN
    /\ pc \in [Invocations -> {"idle", "log", "await", "aborted"}]
    /\ calls \in [Invocations -> 0 .. MaxCalls]
    /\ result \in [Invocations -> {"no_call", "pending", None, "raised"}]
    /\ \A p \in Invocations, k \in CallIds :
          thr[p][k].pc \in {"none", "start", "locked", "mark", "credentials", "client",
                            "dataset", "table", "check", "inserting", "joined"} \cup Ended
    /\ initCount \in Nat

\* the configurations of the concurrent specification: each list absent or
\* naming one of the two event types of a model turn
TurnConfigs ==
    {c \in BigQueryLoggerConfig :
        /\ c.event_allowlist \in {AbsentList, SomeList({"LLM_REQUEST"})}
        /\ c.event_denylist \in {AbsentList, SomeList({"LLM_RESPONSE"})}}

\* __init__, lines 152-156, given its configuration
Constructed(cfg) ==
    /\ config = cfg
    /\ bq_client = None
    /\ client_init_lock = Unlocked
    /\ init_done = FALSE
    /\ init_succeeded = FALSE
    /\ pc = [p \in Invocations |-> "idle"]
    /\ calls = [p \in Invocations |-> 0]
    /\ event_dict = [p \in Invocations |-> NoDict]
    /\ result = [p \in Invocations |-> "no_call"]
    /\ thr = [p \in Invocations |-> [k \in CallIds |-> NoThread]]
    /\ last = [p \in Invocations |-> NoCall]
    /\ initCount = 0
    /\ inserts = <<>>
    /\ call = [p \in Invocations |-> NoFrame]
    /\ probe = NoProbe

Init == \E cfg \in TurnConfigs : Constructed(cfg)

InitHooks == \E cfg \in BigQueryLoggerConfig : Constructed(cfg)

(* ------------------------------------------------------- the coroutines *)

\* a hook is entered and builds its record (lines 291-612, up to the await)
\* hook calls made so far by all invocations
RECURSIVE CallsOf(_)
CallsOf(ps) == IF ps = {} THEN 0 ELSE LET p == CHOOSE q \in ps : TRUE IN calls[p] + CallsOf(ps \ {p})

TotalCalls == CallsOf(Invocations)

HookCall(p, h) ==
    /\ pc[p] = "idle"
    /\ TotalCalls < MaxCalls
    /\ \E a \in Payloads(h) :
          LET k == calls[p] + 1
              b == BuildEventDict(h, p, k, a)
          IN  /\ calls' = [calls EXCEPT ![p] = k]
              /\ IF b.raised
                 THEN /\ pc' = [pc EXCEPT ![p] = "aborted"]
                      /\ result' = [result EXCEPT ![p] = "raised"]
                      /\ last' = [last EXCEPT ![p] = NoCall]
                      /\ UNCHANGED <<event_dict, call>>
                 ELSE /\ pc' = [pc EXCEPT ![p] = "log"]
                      /\ call' = [call EXCEPT ![p] = [hook |-> h, args |-> a]]
                      /\ result' = [result EXCEPT ![p] = "pending"]
                      /\ event_dict' = [event_dict EXCEPT ![p] = b.event_dict]
                      /\ last' = [last EXCEPT ![p] =
                                     [NoCall EXCEPT !.event_type = b.event_dict["event_type"]]]
    /\ UNCHANGED <<probe, config, bq_client, client_init_lock, init_done, init_succeeded, thr,
                   initCount, inserts>>

\* _log_to_bigquery_async up to asyncio.to_thread (lines 221-284): the filter,
\* the custom formatter, then the hand-off of _sync_log to a worker thread
LogToBigQuery(p) ==
    /\ pc[p] = "log"
    /\ LET ev == event_dict[p]
           k == calls[p]
       IN  IF ~Admitted(config, ev)
           THEN /\ pc' = [pc EXCEPT ![p] = "idle"]
                /\ result' = [result EXCEPT ![p] = HookReturn(ev)]
                /\ event_dict' = [event_dict EXCEPT ![p] = NoDict]
                /\ call' = [call EXCEPT ![p] = NoFrame]
                /\ last' = [last EXCEPT ![p].decision = "rejected"]
                /\ UNCHANGED thr
           ELSE LET applies == FormatterApplies(config, ev)
                    r == CallFormatter(config.content_formatter, ev["content"])
                    ev2 == IF applies THEN AfterFormatter(ev, r) ELSE ev
                IN  /\ last' = [last EXCEPT
                                   ![p].decision = "admitted",
                                   ![p].formatter = IF ~applies THEN "not_called"
                                                    ELSE IF r.raised THEN "raised"
                                                    ELSE "returned"]
                    /\ event_dict' = [event_dict EXCEPT ![p] = ev2]
                    /\ thr' = [thr EXCEPT ![p][k] = [pc |-> "start", ev |-> ev2, row |-> NoDict]]
                    /\ pc' = [pc EXCEPT ![p] = "await"]
                    /\ UNCHANGED <<result, call>>
    /\ UNCHANGED <<probe, config, bq_client, client_init_lock, init_done, init_succeeded, calls,
                   initCount, inserts>>

\* `await asyncio.to_thread(_sync_log)` resumes (lines 283-289) and the hook
\* returns None, or the thread's exception goes on to the hook's caller
Await(p) ==
    /\ pc[p] = "await"
    /\ LET k == calls[p]
           t == thr[p][k]
       IN  /\ AwaitDone(t)
           /\ IF t.pc \in Ended
              THEN thr' = [thr EXCEPT ![p][k] = [pc |-> "joined", ev |-> NoDict, row |-> NoDict]]
              ELSE UNCHANGED thr
           /\ IF t.pc \in {"raised_google", "raised_other"} /\ ~LogCatches(t.pc)
              THEN /\ pc' = [pc EXCEPT ![p] = "aborted"]
                   /\ result' = [result EXCEPT ![p] = "raised"]
              ELSE /\ pc' = [pc EXCEPT ![p] = "idle"]
                   /\ result' = [result EXCEPT ![p] = HookReturn(event_dict[p])]
    /\ event_dict' = [event_dict EXCEPT ![p] = NoDict]
    /\ call' = [call EXCEPT ![p] = NoFrame]
    /\ UNCHANGED <<probe, config, bq_client, client_init_lock, init_done, init_succeeded, calls,
                   last, initCount, inserts>>

(* --------------------------------------------------- the worker threads *)

ThreadAt(p, k, where) == thr[p][k].pc = where

Goto(p, k, where) == thr' = [thr EXCEPT ![p][k].pc = where]

\* the thread ends: its closure is gone
EndThread(p, k, how) ==
    thr' = [thr EXCEPT ![p][k] = [pc |-> how, ev |-> NoDict, row |-> NoDict]]

\* one lock for all writing: taken only when no other write is under way
CanAcquireWhenAlone(lock) ==
    /\ lock = Unlocked
    /\ Cardinality({p \in Invocations : pc[p] = "await"}) <= 1

\* no mutual exclusion
CanAcquireAnyway(lock) == TRUE

\* `with self._client_init_lock:` blocks until the lock is free
CanAcquire(lock) == lock = Unlocked

\* a first look at _init_done before the lock is asked for
SkipsLockWhenDone(cfg) == ~IsEnabled(cfg) \/ init_done

\* lines 171-172: the one return of _ensure_initialized_sync ahead of the lock
SkipsLock(cfg) == ~IsEnabled(cfg)

\* _ensure_initialized_sync, lines 171-174: the enabled check, then the lock
EnsureAcquire(p, k) ==
    /\ ThreadAt(p, k, "start")
    /\ IF SkipsLock(config)
       THEN /\ Goto(p, k, "check")
            /\ UNCHANGED client_init_lock
       ELSE /\ CanAcquire(client_init_lock)
            /\ client_init_lock' = <<p, k>>
            /\ Goto(p, k, "locked")
    /\ UNCHANGED <<probe, call, config, bq_client, init_done, init_succeeded, pc, calls, event_dict,
                   result, last, initCount, inserts>>

\* a failed attempt not counting as done
InitDoneAndSucceeded == init_done /\ init_succeeded

\* line 175: the initialization was attempted before
InitAlreadyDone == init_done

\* lines 175-176, inside the with block: return when done, releasing the lock
InitCheck(p, k) ==
    /\ ThreadAt(p, k, "locked")
    /\ IF InitAlreadyDone
       THEN /\ client_init_lock' = ExitWith(client_init_lock)
            /\ Goto(p, k, "check")
       ELSE /\ Goto(p, k, "mark")
            /\ UNCHANGED client_init_lock
    /\ UNCHANGED <<probe, call, config, bq_client, init_done, init_succeeded, pc, calls, event_dict,
                   result, last, initCount, inserts>>

\* line 177: mark the attempt; the initialization body starts here
InitMark(p, k) ==
    /\ ThreadAt(p, k, "mark")
    /\ init_done' = TRUE
    /\ initCount' = initCount + 1
    /\ Goto(p, k, "credentials")
    /\ UNCHANGED <<probe, call, config, bq_client, client_init_lock, init_succeeded, pc, calls,
                   event_dict, result, last, inserts>>

\* lines 212-219 and the end of the with block: a caught failure clears
\* init_succeeded and the call returns; any other exception leaves the function
InitFails(p, k, outcome) ==
    /\ client_init_lock' = ExitWith(client_init_lock)
    /\ IF InitCatches(outcome)
       THEN /\ init_succeeded' = FALSE
            /\ Goto(p, k, "check")
       ELSE /\ EndThread(p, k, "raised_other")
            /\ UNCHANGED init_succeeded

\* lines 179-181: google.auth.default
InitCredentials(p, k) ==
    /\ ThreadAt(p, k, "credentials")
    /\ \E outcome \in CallOutcomes :
          IF outcome = "ok"
          THEN /\ Goto(p, k, "client")
               /\ UNCHANGED <<client_init_lock, init_succeeded>>
          ELSE InitFails(p, k, outcome)
    /\ UNCHANGED <<probe, call, config, bq_client, init_done, pc, calls, event_dict, result, last,
                   initCount, inserts>>

\* lines 182-192: bigquery.Client
InitClient(p, k) ==
    /\ ThreadAt(p, k, "client")
    /\ \E outcome \in CallOutcomes :
          IF outcome = "ok"
          THEN /\ bq_client' = Client(initCount)
               /\ Goto(p, k, "dataset")
               /\ UNCHANGED <<client_init_lock, init_succeeded>>
          ELSE /\ InitFails(p, k, outcome)
               /\ UNCHANGED bq_client
    /\ UNCHANGED <<probe, call, config, init_done, pc, calls, event_dict, result, last, initCount,
                   inserts>>

\* lines 193-195: create_dataset
InitDataset(p, k) ==
    /\ ThreadAt(p, k, "dataset")
    /\ \E outcome \in CallOutcomes :
          IF outcome = "ok"
          THEN /\ Goto(p, k, "table")
               /\ UNCHANGED <<client_init_lock, init_succeeded>>
          ELSE InitFails(p, k, outcome)
    /\ UNCHANGED <<probe, call, config, bq_client, init_done, pc, calls, event_dict, result, last,
                   initCount, inserts>>

\* lines 196-211: create_table, then init_succeeded = True and the lock is released
InitTable(p, k) ==
    /\ ThreadAt(p, k, "table")
    /\ \E outcome \in CallOutcomes :
          IF outcome = "ok"
          THEN /\ init_succeeded' = TRUE
               /\ client_init_lock' = ExitWith(client_init_lock)
               /\ Goto(p, k, "check")
          ELSE InitFails(p, k, outcome)
    /\ UNCHANGED <<probe, call, config, bq_client, init_done, pc, calls, event_dict, result, last,
                   initCount, inserts>>

\* the record kept in one place for all hook calls: a thread reads that of
\* whichever call is waiting
SharedRecord(p, k) == event_dict[CHOOSE q \in Invocations : pc[q] = "await"]

\* lines 255 and 272: _sync_log is a closure over the event_dict of its own
\* call of _log_to_bigquery_async
ClosureRecord(p, k) == thr[p][k].ev

\* _sync_log, lines 257-274: drop the record when the sink is not ready, else
\* build the row and call insert_rows_json
SyncLogCheck(p, k) ==
    /\ ThreadAt(p, k, "check")
    /\ IF ~SinkReady
       THEN /\ EndThread(p, k, "finished")
            /\ UNCHANGED inserts
       ELSE /\ inserts' = Append(inserts, <<p, k>>)
            /\ thr' = [thr EXCEPT ![p][k].pc = "inserting",
                                  ![p][k].row = Merge(default_row(k), ClosureRecord(p, k))]
    /\ UNCHANGED <<probe, call, config, bq_client, client_init_lock, init_done, init_succeeded, pc,
                   calls, event_dict, result, last, initCount>>

\* a row refused by the store written again
AfterInsertRetries(outcome) ==
    CASE outcome = "ok" -> "finished"
      [] outcome = "row_errors" -> "check"
      [] outcome = "google_error" -> "raised_google"
      [] outcome = "other_error" -> "raised_other"

\* lines 274-281: where _sync_log goes after insert_rows_json; row errors are
\* logged and the function ends, an exception leaves it
AfterInsert(outcome) ==
    CASE outcome = "ok" -> "finished"
      [] outcome = "row_errors" -> "finished_errors"
      [] outcome = "google_error" -> "raised_google"
      [] outcome = "other_error" -> "raised_other"

\* lines 274-281: insert_rows_json returns (with or without row errors) or raises
InsertRowsJson(p, k) ==
    /\ ThreadAt(p, k, "inserting")
    /\ \E outcome \in InsertOutcomes :
          LET next == AfterInsert(outcome)
          IN  IF next \in Ended THEN EndThread(p, k, next) ELSE Goto(p, k, next)
    /\ UNCHANGED <<probe, call, config, bq_client, client_init_lock, init_done, init_succeeded, pc,
                   calls, event_dict, result, last, initCount, inserts>>

Thread(p, k) ==
    \/ EnsureAcquire(p, k)
    \/ InitCheck(p, k)
    \/ InitMark(p, k)
    \/ InitCredentials(p, k)
    \/ InitClient(p, k)
    \/ InitDataset(p, k)
    \/ InitTable(p, k)
    \/ SyncLogCheck(p, k)
    \/ InsertRowsJson(p, k)

(* ---------------------------------------------------- the specifications *)

\* concurrent invocations, each firing the hooks of model turns in order
Next ==
    \E p \in Invocations :
        \/ HookCall(p, TurnHook(calls[p] + 1))
        \/ LogToBigQuery(p)
        \/ Await(p)
        \/ \E k \in CallIds : Thread(p, k)

Spec == Init /\ [][Next]_vars

\* the scheduling the code relies on: the event loop resumes a coroutine that
\* can go on, the thread pool of asyncio.to_thread runs a thread that can go on,
\* and a call into google.auth or google.cloud.bigquery returns or raises; the
\* host is free never to fire another hook
Fairness ==
    \A p \in Invocations :
        /\ WF_vars(LogToBigQuery(p))
        /\ WF_vars(Await(p))
        /\ \A k \in CallIds : WF_vars(Thread(p, k))

SpecFair == Spec /\ Fairness

\* one invocation firing any hooks in any order
NextHooks ==
    \/ \E h \in Hooks : HookCall(1, h)
    \/ LogToBigQuery(1)
    \/ Await(1)
    \/ \E k \in CallIds : Thread(1, k)

SpecHooks == InitHooks /\ [][NextHooks]_vars

(* ------------------------------------------------ the helper functions *)

\* the defaults of BigQueryLoggerConfig (lines 64-68)
DefaultConfig ==
    [enabled |-> TRUE, event_allowlist |-> AbsentList, event_denylist |-> AbsentList,
     content_formatter |-> None]

InitPure == Constructed(DefaultConfig)

Ruler10 == "1234567890"

Ruler50 == Ruler10 \o Ruler10 \o Ruler10 \o Ruler10 \o Ruler10

Ruler500 ==
    Ruler50 \o Ruler50 \o Ruler50 \o Ruler50 \o Ruler50
    \o Ruler50 \o Ruler50 \o Ruler50 \o Ruler50 \o Ruler50

\* the first n characters of "12345678901234567890123..." (n <= 500)
Ruler(n) == SubSeq(Ruler500, 1, n)

\* lengths of a part's text around the limit of _format_content
TextLengths ==
    {1, 2, 150, FormatContentMaxLength - 1, FormatContentMaxLength,
     FormatContentMaxLength + 1, FormatContentMaxLength + 2, 250}

\* white space before and after a part's text
Paddings == {"", " ", "\n", " \t "}

\* the texts of a part: with and without white space around them, all white
\* space, and empty
Texts ==
    {lead \o Ruler(n) \o trail : lead \in Paddings, n \in TextLengths, trail \in Paddings}
    \cup {"", " ", "\n\n"}

\* lengths of str(args) around the limit of _format_args
ArgsLengths ==
    {10, 100, FormatArgsMaxLength - 1, FormatArgsMaxLength, FormatArgsMaxLength + 1,
     FormatArgsMaxLength + 2, 400}

\* str(args) of a one-key dictionary, n characters long (n >= 10)
DictDisplay(n) == "{'q': '" \o Ruler(n - 9) \o "'}"

\* tool arguments and tool results: None, an empty dictionary, or a dictionary
\* by its display string
ArgsValues == {None, "{}"} \cup {DictDisplay(n) : n \in ArgsLengths}

\* the events on_event_callback can receive, by the features _get_event_type reads
ClassifierEvents ==
    {[author |-> a, content |-> c, error_message |-> e, timestamp |-> 7] :
        a \in {"user", AgentName, "model"},
        c \in {NoContent, Content(<<>>), Content(<<TextPart("hi")>>), Content(<<CallPart("f")>>),
               Content(<<ResponsePart("f")>>), Content(<<CallPart("f"), ResponsePart("f")>>),
               Content(<<ResponsePart("f"), CallPart("g")>>)},
        e \in {None, "", "boom"}}

\* _get_event_type(event) is called
ApplyGetEventType ==
    /\ \E event \in ClassifierEvents :
          probe' = [fn |-> "_get_event_type", input |-> event, out |-> _get_event_type(event)]
    /\ UNCHANGED <<call, config, bq_client, client_init_lock, init_done, init_succeeded, pc,
                   calls, event_dict, result, thr, last, initCount, inserts>>

\* _format_content(content) is called on a content of one text part
ApplyFormatContent ==
    /\ \E text \in Texts :
          probe' = [fn |-> "_format_content", input |-> text,
                    out |-> _format_content(Content(<<TextPart(text)>>), FormatContentMaxLength)]
    /\ UNCHANGED <<call, config, bq_client, client_init_lock, init_done, init_succeeded, pc,
                   calls, event_dict, result, thr, last, initCount, inserts>>

\* _format_args(args) is called
ApplyFormatArgs ==
    /\ \E args \in ArgsValues :
          probe' = [fn |-> "_format_args", input |-> args,
                    out |-> _format_args(args, FormatArgsMaxLength)]
    /\ UNCHANGED <<call, config, bq_client, client_init_lock, init_done, init_succeeded, pc,
                   calls, event_dict, result, thr, last, initCount, inserts>>

\* the most parts of a content
MaxParts == 2

\* the kinds of part: a text, a function call, a function response, a code
\* execution result, none of them, all of them, an empty text beside a function
\* call, a function response beside a code execution result
PartKinds ==
    {TextPart("hi"), CallPart("get_weather"), ResponsePart("get_weather"),
     Part(None, None, None, "OUTCOME_OK"), Part(None, None, None, None),
     Part("hi", "f", "g", "OUTCOME_OK"), Part("", "f", None, None),
     Part(None, None, "g", "OUTCOME_OK")}

RECURSIVE SeqsUpTo(_, _)
SeqsUpTo(S, n) ==
    IF n = 0 THEN {<<>>}
    ELSE SeqsUpTo(S, n - 1) \cup {Append(q, x) : q \in SeqsUpTo(S, n - 1), x \in S}

\* the contents handed to _format_content: None, or up to MaxParts parts
MultiPartContents == {NoContent} \cup {Content(parts) : parts \in SeqsUpTo(PartKinds, MaxParts)}

\* _format_content(content) is called on a content of several parts
ApplyFormatParts ==
    /\ \E content \in MultiPartContents :
          probe' = [fn |-> "_format_content(parts)", input |-> content,
                    out |-> _format_content(content, FormatContentMaxLength)]
    /\ UNCHANGED <<call, config, bq_client, client_init_lock, init_done, init_succeeded, pc,
                   calls, event_dict, result, thr, last, initCount, inserts>>

NextPure == ApplyGetEventType \/ ApplyFormatContent \/ ApplyFormatArgs \/ ApplyFormatParts

SpecPure == InitPure /\ [][NextPure]_vars

(* ------------------------------------------------------------ the claims *)

ThreadIds == Invocations \X CallIds

\* the worker thread of call k of invocation p
T(id) == thr[id[1]][id[2]]

\* insert_rows_json was called for call k of invocation p
InsertStarted(p, k) == \E i \in 1 .. Len(inserts) : inserts[i] = <<p, k>>

\* the thread states inside the initialization body (lines 178-211)
InitBody == {"credentials", "client", "dataset", "table"}

\* the thread states after _ensure_initialized_sync took the lock and looked
PastInitCheck == InitBody \cup {"check", "inserting", "joined"} \cup Ended

Initializing == \E id \in ThreadIds : T(id).pc \in InitBody

\* C1: however many hook calls race for the first write, the initialization
\* body is entered at most once, and exactly once as soon as any writer is past
\* the check under the lock.
C1_InitBodyOnce ==
    /\ initCount <= 1
    /\ (\E id \in ThreadIds : T(id).pc \in PastInitCheck) => initCount = 1

\* one writer is inside the initialization body while another waits for the lock
C1_Witness ==
    \E a \in ThreadIds, b \in ThreadIds :
        /\ a[1] # b[1]
        /\ T(a).pc = "table"
        /\ T(b).pc = "start"
        /\ initCount = 1

\* C2: no hook call ends by raising into its caller.
C2_HooksNeverRaise == \A p \in Invocations : result[p] # "raised"

\* the one initialization attempt is over and it failed
InitFailed == init_done /\ ~init_succeeded /\ ~Initializing

\* C3: once the initialization attempt has failed, no step inserts a row or
\* enters the initialization body again, and the flags stay attempted, not
\* succeeded.
C3_FailedInitIsFinal ==
    [][InitFailed =>
          /\ InitFailed'
          /\ init_done' /\ ~init_succeeded'
          /\ initCount' = initCount
          /\ inserts' = inserts
          /\ \A id \in ThreadIds : thr'[id[1]][id[2]].pc # "inserting"]_vars

\* after the failure two writers have run to their end and nothing was inserted
C3_Witness ==
    /\ InitFailed
    /\ inserts = <<>>
    /\ \E a \in ThreadIds, b \in ThreadIds :
          /\ a # b
          /\ T(a).pc \in {"finished", "joined"}
          /\ T(b).pc = "finished"

\* C4: a failure of any kind inside the initialization never leaves
\* _ensure_initialized_sync as an exception: a writer that ended by raising
\* had reached its insert.
C4_InitFailureAbsorbed ==
    \A id \in ThreadIds : T(id).pc = "raised_other" => InsertStarted(id[1], id[2])

\* the items of an Optional[List[str]], none when it is absent
ListItems(l) == IF l.present THEN l.items ELSE {}

\* the rows being inserted
InsertingRows == {T(id).row : id \in {j \in ThreadIds : T(j).pc = "inserting"}}

\* C5: no row whose event type is in the denylist is handed to the insert,
\* whatever the allowlist holds.
C5_DenylistWins ==
    \A row \in InsertingRows : row["event_type"] \notin ListItems(config.event_denylist)

\* with a ready sink, a type both allowlisted and denylisted was rejected
C5_Witness ==
    \E p \in Invocations :
        /\ SinkReady
        /\ pc[p] = "idle"
        /\ last[p].decision = "rejected"
        /\ last[p].event_type \in ListItems(config.event_denylist)
        /\ last[p].event_type \in ListItems(config.event_allowlist)

\* C6: with a non-empty allowlist, no row whose type is neither denylisted nor
\* allowlisted is handed to the insert.
C6_AllowlistRestricts ==
    \A row \in InsertingRows :
        ~(/\ ListItems(config.event_allowlist) # {}
          /\ row["event_type"] \notin ListItems(config.event_denylist)
          /\ row["event_type"] \notin ListItems(config.event_allowlist))

\* with a ready sink, a type outside a non-empty allowlist and outside the
\* denylist was rejected
C6_Witness ==
    \E p \in Invocations :
        /\ SinkReady
        /\ pc[p] = "idle"
        /\ last[p].decision = "rejected"
        /\ ListItems(config.event_allowlist) # {}
        /\ last[p].event_type \notin ListItems(config.event_denylist)
        /\ last[p].event_type \notin ListItems(config.event_allowlist)

\* the reference filter of the specification
admit(event_type, cfg) ==
    /\ cfg.enabled
    /\ event_type \notin ListItems(cfg.event_denylist)
    /\ (ListItems(cfg.event_allowlist) = {} \/ event_type \in ListItems(cfg.event_allowlist))

\* C7: the decision the filter took for a hook call is the reference decision,
\* for every event type and every enabled flag, allowlist and denylist.
C7_FilterIsAdmit ==
    \A p \in Invocations :
        last[p].decision # "pending" =>
            (last[p].decision = "admitted" <=> admit(last[p].event_type, config))

\* an empty allowlist beside a non-empty denylist admitted a type
C7_Witness ==
    \E p \in Invocations :
        /\ config.event_allowlist = SomeList({})
        /\ ListItems(config.event_denylist) # {}
        /\ last[p].decision = "admitted"

\* C8: a disabled plugin never attempts the initialization and never inserts;
\* the flags, the client and the lock stay as constructed.
C8_DisabledIsNoOp ==
    ~config.enabled =>
        /\ initCount = 0
        /\ inserts = <<>>
        /\ ~init_done
        /\ ~init_succeeded
        /\ bq_client = None
        /\ client_init_lock = Unlocked

\* a disabled plugin has taken every hook call of the run
C8_Witness ==
    /\ ~config.enabled
    /\ TotalCalls = MaxCalls
    /\ \A p \in Invocations : pc[p] = "idle"
    /\ \E p \in Invocations : last[p].decision = "rejected"

\* C9: a content formatter that raises leaves the record as the hook built it
\* and the record still goes to the writer, which inserts it with that content
\* when the sink is ready.
C9_FormatterErrorKeepsRecord ==
    [][\A p \in Invocations :
          /\ (pc[p] = "log" /\ last'[p].formatter = "raised") =>
                /\ pc'[p] = "await"
                /\ thr'[p][calls[p]].pc = "start"
                /\ thr'[p][calls[p]].ev = event_dict[p]
          /\ (last[p].formatter = "raised" /\ thr[p][calls[p]].pc = "check" /\ SinkReady) =>
                /\ thr'[p][calls[p]].pc = "inserting" => InsertStarted(p, calls[p])'
                /\ thr'[p][calls[p]].pc \in {"check", "inserting"}
                /\ thr'[p][calls[p]].pc = "inserting" =>
                      thr'[p][calls[p]].row["content"] = thr[p][calls[p]].ev["content"]]_vars

\* the formatter raised and the row is being inserted with the built content
C9_Witness ==
    \E p \in Invocations :
        /\ last[p].formatter = "raised"
        /\ calls[p] > 0
        /\ thr[p][calls[p]].pc = "inserting"
        /\ thr[p][calls[p]].row["content"] # None

\* the thread states of a worker that has not ended
Running == {"start", "locked", "mark", "check", "inserting"} \cup InitBody

\* C10: the rows of one invocation reach insert_rows_json in the order of its
\* hook calls, and when the insert of a later call starts no earlier call of
\* that invocation is still on its way.
C10_InvocationOrder ==
    /\ \A i \in 1 .. Len(inserts), j \in 1 .. Len(inserts) :
          (i < j /\ inserts[i][1] = inserts[j][1]) => inserts[i][2] < inserts[j][2]
    /\ \A p \in Invocations, k1 \in CallIds, k2 \in CallIds :
          (k1 < k2 /\ InsertStarted(p, k2)) => thr[p][k1].pc \notin Running

\* two rows of one invocation were inserted, and one of another invocation
C10_Witness ==
    \E p \in Invocations, q \in Invocations :
        /\ p # q
        /\ InsertStarted(p, 1)
        /\ InsertStarted(p, 2)
        /\ InsertStarted(q, 1)

\* C11: whenever a hook call returns, it returns None: the value the runner
\* receives from any hook, for any payload and in any state of the sink, makes
\* it go on unchanged.
C11_HooksReturnNone ==
    [][\A p \in Invocations :
          (pc[p] \in {"log", "await"} /\ pc'[p] = "idle") => result'[p] = None]_vars

\* a hook returned None after the one initialization attempt had failed
C11_Witness ==
    \E p \in Invocations :
        /\ pc[p] = "idle"
        /\ result[p] = None
        /\ last[p].decision = "admitted"
        /\ InitFailed

\* C12: every row handed to insert_rows_json has exactly the eight keys, for
\* every hook; a key the hook set carries the hook's value and a key the hook
\* did not set is present with None.
C12_RowHasEightKeys ==
    \A id \in ThreadIds :
        T(id).pc = "inserting" =>
            /\ DOMAIN T(id).row = RowKeys
            /\ \A key \in RowKeys :
                  T(id).row[key] = IF key \in DOMAIN T(id).ev THEN T(id).ev[key] ELSE None

\* the row of a model error, whose hook sets no content, is being inserted
C12_Witness ==
    \E p \in Invocations :
        /\ call[p].hook = "on_model_error_callback"
        /\ thr[p][calls[p]].pc = "inserting"
        /\ "content" \notin DOMAIN thr[p][calls[p]].ev
        /\ thr[p][calls[p]].row["content"] = None
        /\ thr[p][calls[p]].row["error_message"] = "timeout"

\* how often insert_rows_json was called for call k of invocation p
InsertCount(p, k) == Cardinality({i \in 1 .. Len(inserts) : inserts[i] = <<p, k>>})

\* the worker thread of an admitted hook call is over
ThreadOver(id) == T(id).pc \in Ended \cup {"joined"}

\* C13: insert_rows_json is called at most once for any hook call, exactly once
\* for an admitted call whose worker thread found the sink ready, and a call
\* that ended in row errors or in an exception is not tried again: once a
\* thread is over the number of its insert calls no longer changes.
C13_OneInsertPerEvent ==
    [][\A id \in ThreadIds :
          /\ InsertCount(id[1], id[2])' <= 1
          /\ (thr'[id[1]][id[2]].pc \in Ended \cup {"joined"} /\ SinkReady') =>
                InsertCount(id[1], id[2])' = 1
          /\ ThreadOver(id) => InsertCount(id[1], id[2])' = InsertCount(id[1], id[2])]_vars

\* one insert came back with row errors, another raised, each after one call
C13_Witness ==
    \E a \in ThreadIds, b \in ThreadIds :
        /\ T(a).pc = "finished_errors"
        /\ T(b).pc \in {"raised_google", "joined"}
        /\ a # b
        /\ InsertCount(a[1], a[2]) = 1
        /\ InsertCount(b[1], b[2]) = 1

\* the thread states inside `with self._client_init_lock:` (lines 174-219)
LockSection == {"locked", "mark"} \cup InitBody

InLockSection == {id \in ThreadIds : T(id).pc \in LockSection}

\* C14: _init_done goes from false to true at most once, by the thread that
\* holds the initialization lock, and never back to false; at no time are two
\* threads inside the section the lock guards.
C14_InitDoneOnceUnderLock ==
    [][/\ init_done => init_done'
       /\ (~init_done /\ init_done') =>
             /\ client_init_lock # Unlocked
             /\ client_init_lock' = client_init_lock
             /\ T(client_init_lock).pc = "mark"
             /\ thr'[client_init_lock[1]][client_init_lock[2]].pc = "credentials"
             /\ initCount = 0
       /\ initCount' <= 1
       /\ Cardinality(InLockSection') <= 1
       /\ \A id \in InLockSection' : client_init_lock' = id]_vars

\* the flag is set and its setter still holds the lock in the body, while a
\* thread of the other invocation is about to ask for the lock
C14_Witness ==
    \E a \in ThreadIds, b \in ThreadIds :
        /\ a[1] # b[1]
        /\ init_done
        /\ client_init_lock = a
        /\ T(a).pc = "credentials"
        /\ T(b).pc = "start"

\* the parts of an event's content, none when it has no content
PartsOf(event) == IF event.content.absent THEN <<>> ELSE event.content.parts

\* the rules of the classifier in their order: the feature of the event each
\* looks at, and the type it gives
ClassifierRules(event) ==
    << [matches |-> event.author = "user", type |-> "USER_INPUT"],
       [matches |-> \E i \in DOMAIN PartsOf(event) : PartsOf(event)[i].function_call # None,
        type |-> "TOOL_CALL"],
       [matches |-> \E i \in DOMAIN PartsOf(event) : PartsOf(event)[i].function_response # None,
        type |-> "TOOL_RESULT"],
       [matches |-> PartsOf(event) # <<>>, type |-> "MODEL_RESPONSE"],
       [matches |-> event.error_message \notin {None, ""}, type |-> "ERROR"],
       [matches |-> TRUE, type |-> "SYSTEM"] >>

\* the type of the first rule that matches
FirstMatch(event) ==
    LET rules == ClassifierRules(event)
        first == CHOOSE i \in 1 .. Len(rules) :
                     rules[i].matches /\ \A j \in 1 .. (i - 1) : ~rules[j].matches
    IN  rules[first].type

\* C15: _get_event_type gives every event exactly one type, that of the
\* first rule that matches in the order USER_INPUT, TOOL_CALL, TOOL_RESULT,
\* MODEL_RESPONSE, ERROR, SYSTEM.
C15_ClassifierPrecedence ==
    probe.fn = "_get_event_type" =>
        /\ probe.out = FirstMatch(probe.input)
        /\ probe.out \in {"USER_INPUT", "TOOL_CALL", "TOOL_RESULT", "MODEL_RESPONSE",
                          "ERROR", "SYSTEM"}

\* an agent's event with a function response before a function call and an
\* error message was classified TOOL_CALL
C15_Witness ==
    /\ probe.fn = "_get_event_type"
    /\ probe.input.author # "user"
    /\ probe.input.content = Content(<<ResponsePart("f"), CallPart("g")>>)
    /\ probe.input.error_message = "boom"
    /\ probe.out = "TOOL_CALL"

\* a text part as _format_content writes it
RenderedText(text) == "text: '" \o text \o "'"

\* a text cut after its first 200 characters when it is longer
Truncated200(text) == IF Len(text) > 200 THEN SubSeq(text, 1, 200) \o "..." ELSE text

\* the positions of a text's characters that are not white space
InkPositions(text) == {i \in 1 .. Len(text) : SubSeq(text, i, i) \notin {" ", "\t", "\n", "\r"}}

Least(S) == CHOOSE i \in S : \A j \in S : i <= j

Greatest(S) == CHOOSE i \in S : \A j \in S : j <= i

\* a text without the white space before its first and after its last other
\* character
Trimmed(text) ==
    IF InkPositions(text) = {} THEN ""
    ELSE SubSeq(text, Least(InkPositions(text)), Greatest(InkPositions(text)))

\* C17 as stated: every text part longer than 200 characters is rendered as
\* its first 200 characters and '...', every other text part unchanged.
C17_TextTruncation ==
    probe.fn = "_format_content" => probe.out = RenderedText(Truncated200(probe.input))

\* C17, amended: a part whose text is not empty is rendered from that text
\* without its leading and trailing white space: its first 200 characters and
\* '...' when what is left is longer than 200 characters, all of it otherwise
\* (200 characters left are unchanged, 201 are truncated); a part whose text
\* is empty is not rendered as text.
C17_TrimmedTextTruncation ==
    probe.fn = "_format_content" =>
        IF probe.input = "" THEN probe.out = "other_part"
        ELSE probe.out = RenderedText(Truncated200(Trimmed(probe.input)))

\* a text of 201 characters between white space was cut to 200 and '...'
C17_Witness ==
    /\ probe.fn = "_format_content"
    /\ probe.input = " " \o Ruler(201) \o "\n"
    /\ probe.out = RenderedText(Ruler(200) \o "...")

\* C18: a tool-arguments or tool-result dictionary whose display string is
\* longer than 300 characters is rendered as the first 300 characters of that
\* string and '...}', a shorter one (300 characters included) as the string
\* itself, and an empty or absent dictionary as '{}'.
C18_ArgsTruncation ==
    probe.fn = "_format_args" =>
        /\ probe.input \in {None, "{}"} => probe.out = "{}"
        /\ (probe.input \notin {None, "{}"} /\ Len(probe.input) <= 300) =>
              probe.out = probe.input
        /\ (probe.input # None /\ Len(probe.input) > 300) =>
              /\ Len(probe.out) = 304
              /\ SubSeq(probe.out, 1, 300) = SubSeq(probe.input, 1, 300)
              /\ SubSeq(probe.out, 301, 304) = "...}"

\* a display string of 301 characters was cut to 300 and '...}'
C18_Witness ==
    /\ probe.fn = "_format_args"
    /\ probe.input # None
    /\ Len(probe.input) = 301
    /\ probe.out = SubSeq(probe.input, 1, 300) \o "...}"

\* sub occurs in s
Contains(s, sub) ==
    \E i \in 1 .. (Len(s) - Len(sub) + 1) : SubSeq(s, i, i + Len(sub) - 1) = sub

\* the rows being inserted for a call of on_tool_error_callback, each with the
\* arguments of its call and what the content formatter did
ToolErrorRows ==
    {[row |-> thr[p][calls[p]].row, args |-> call[p].args, formatter |-> last[p].formatter] :
        p \in {q \in Invocations :
                  /\ call[q].hook = "on_tool_error_callback"
                  /\ thr[q][calls[q]].pc = "inserting"}}

NamesToolAndArgs(content, args) ==
    /\ Contains(content, args.tool.name)
    /\ Contains(content, _format_args(args.tool_args, 300))

\* C16 as stated: the row of a tool error has event_type TOOL_ERROR, the text
\* of the error as error_message, and a content containing the tool's name and
\* the formatted tool arguments.
C16_ToolErrorRow ==
    \A r \in ToolErrorRows :
        /\ r.row["event_type"] = "TOOL_ERROR"
        /\ r.row["error_message"] = r.args.error
        /\ NamesToolAndArgs(r.row["content"], r.args)

\* C16, amended: the row of a tool error has event_type TOOL_ERROR and the text
\* of the error as error_message; its content contains the tool's name and the
\* formatted tool arguments unless a configured content formatter returned,
\* and then its content is what the formatter returned.
C16_ToolErrorRowFormatted ==
    \A r \in ToolErrorRows :
        /\ r.row["event_type"] = "TOOL_ERROR"
        /\ r.row["error_message"] = r.args.error
        /\ IF r.formatter = "returned"
           THEN r.row["content"] = "[REDACTED]"
           ELSE NamesToolAndArgs(r.row["content"], r.args)

\* the row of a tool error "timeout" is being inserted with the content the
\* hook built, the configured formatter having raised
C16_Witness ==
    \E r \in ToolErrorRows :
        /\ r.args.error = "timeout"
        /\ r.formatter = "raised"
        /\ r.row["error_message"] = "timeout"
        /\ r.row["content"] = "Tool Name: google_search, Arguments: {'query': 'adk'}"

\* the worker thread id after the step
TNext(id) == thr'[id[1]][id[2]]

\* C19 as stated: a call of _ensure_initialized_sync made when _init_done is
\* already true does not acquire the initialization lock, and whoever acquires
\* the lock saw _init_done false.
C19_LockFreeFastPath ==
    [][\A id \in ThreadIds :
          (T(id).pc = "start" /\ TNext(id).pc = "locked") => ~init_done]_vars

\* C19, amended: every call of _ensure_initialized_sync acquires the
\* initialization lock, whether _init_done is true or not, and waits until it
\* is free; the flag is read only by the holder of the lock, and a caller that
\* finds it true releases the lock and returns without entering the body.
C19_CheckOnlyUnderLock ==
    [][\A id \in ThreadIds :
          /\ (T(id).pc = "start" /\ TNext(id).pc # "start") =>
                /\ TNext(id).pc = "locked"
                /\ client_init_lock = Unlocked
                /\ client_init_lock' = id
          /\ (T(id).pc = "locked" /\ TNext(id).pc # "locked") =>
                /\ client_init_lock = id
                /\ IF init_done
                   THEN /\ TNext(id).pc = "check"
                        /\ client_init_lock' = Unlocked
                        /\ initCount' = initCount
                   ELSE TNext(id).pc = "mark" /\ client_init_lock' = id
          /\ (T(id).pc # "check" /\ TNext(id).pc = "check") => client_init_lock = id]_vars

\* a caller holds the lock it acquired after the initialization had succeeded
C19_Witness ==
    \E id \in ThreadIds :
        /\ T(id).pc = "locked"
        /\ client_init_lock = id
        /\ init_done
        /\ SinkReady

\* C20: in every hook call the filter comes first, then the custom formatter,
\* then _ensure_initialized_sync, then the insert. A call whose event the
\* filter rejects (plugin disabled, type denylisted, or type not allowlisted)
\* returns at once: the formatter is not called, no worker thread is started,
\* the initialization flags and the inserts stay as they were. A worker thread
\* exists only for an admitted call and works on the record as the formatter
\* left it; the initialization body is entered only by the thread of an
\* admitted call, and a row is inserted only from the end of
\* _ensure_initialized_sync with the sink ready.
C20_StagesInOrder ==
    [][\A p \in Invocations :
          /\ (pc[p] = "log" /\ ~admit(event_dict[p]["event_type"], config)) =>
                /\ pc'[p] = "idle"
                /\ last'[p].decision = "rejected"
                /\ last'[p].formatter = "not_called"
                /\ thr' = thr
                /\ thr[p][calls[p]].pc = "none"
                /\ <<init_done, init_succeeded, initCount, bq_client, inserts>>'
                      = <<init_done, init_succeeded, initCount, bq_client, inserts>>
          /\ (pc[p] = "log" /\ admit(event_dict[p]["event_type"], config)) =>
                /\ thr[p][calls[p]].pc = "none"
                /\ thr'[p][calls[p]].pc = "start"
                /\ last'[p].formatter = "returned" =>
                      thr'[p][calls[p]].ev["content"] = "[REDACTED]"
                /\ last'[p].formatter # "returned" => thr'[p][calls[p]].ev = event_dict[p]
                /\ <<init_done, initCount, inserts>>' = <<init_done, initCount, inserts>>
          /\ \A k \in CallIds :
                /\ thr'[p][k].pc # "none" =>
                      (IF k = calls'[p] THEN last'[p].decision = "admitted" ELSE k < calls'[p])
                /\ (thr[p][k].pc # "mark" /\ thr'[p][k].pc = "mark") => ~init_done
                /\ (thr[p][k].pc # "inserting" /\ thr'[p][k].pc = "inserting") =>
                      /\ thr[p][k].pc = "check"
                      /\ init_done /\ SinkReady
                      /\ client_init_lock # <<p, k>>
          /\ (~init_done /\ init_done') =>
                \E q \in Invocations :
                    /\ last[q].decision = "admitted"
                    /\ thr[q][calls[q]].pc = "mark"]_vars

\* a first call was rejected and left the sink untouched; the second call, the
\* first admitted one, is inside the initialization body
C20_Witness ==
    \E p \in Invocations :
        /\ calls[p] = 2
        /\ thr[p][1].pc = "none"
        /\ thr[p][2].pc \in InitBody
        /\ last[p].decision = "admitted"
        /\ last[p].formatter = "returned"
        /\ initCount = 1

\* C21: a hook call hands control back to its caller only after its own
\* worker thread has ended: the step by which a call that started a thread
\* returns or raises finds that thread ended, with its insert (or its decision
\* to drop the record, the sink not being ready) behind it, and no invocation
\* that is between two hook calls has a thread that is still running.
C21_WriteEndsBeforeReturn ==
    [][\A p \in Invocations :
          /\ (pc[p] = "await" /\ pc'[p] # "await") =>
                /\ thr[p][calls[p]].pc \in Ended
                /\ thr'[p][calls[p]].pc = "joined"
                /\ (SinkReady => InsertStarted(p, calls[p]))
          /\ pc'[p] \in {"idle", "aborted"} =>
                \A k \in CallIds : thr'[p][k].pc \notin Running]_vars

\* a hook has returned after its insert ended, and the next hook call of the
\* invocation is waiting for its own thread, which is inserting
C21_Witness ==
    \E p \in Invocations :
        /\ calls[p] = 2
        /\ pc[p] = "await"
        /\ thr[p][1].pc = "joined"
        /\ InsertStarted(p, 1)
        /\ thr[p][2].pc = "inserting"

\* the hook calls the filter admitted, with a content formatter configured
FormattedCalls ==
    {p \in Invocations : last[p].decision = "admitted" /\ config.content_formatter # None}

\* C22 as stated: with a content formatter configured, the formatter is called
\* for every admitted record, of every hook, also when the record carries no
\* content.
C22_FormatterOnEveryRecord == \A p \in FormattedCalls : last[p].formatter # "not_called"

\* C22, amended: with a content formatter configured, an admitted record is
\* handed to the formatter, once and before its worker thread starts, exactly
\* when it has a content key, whatever the value under it (None for the hooks
\* of a run's start and end); a record without that key, as the model-error
\* hook builds it, goes to the write without the formatter being called. With
\* no formatter configured none is called.
C22_FormatterOnContentKey ==
    [][\A p \in Invocations :
          (pc[p] = "log" /\ admit(event_dict[p]["event_type"], config)) =>
              /\ last[p].formatter = "not_called"
              /\ thr[p][calls[p]].pc = "none"
              /\ (last'[p].formatter # "not_called") <=>
                    (config.content_formatter # None /\ "content" \in DOMAIN event_dict[p])
              /\ last'[p].formatter = "returned" =>
                    thr'[p][calls[p]].ev = [event_dict[p] EXCEPT !["content"] = "[REDACTED]"]
              /\ last'[p].formatter # "returned" => thr'[p][calls[p]].ev = event_dict[p]]_vars

\* the formatter was called on the None that before_run_callback sets as
\* content, and the row is being inserted with what it returned
C22_Witness ==
    \E p \in Invocations :
        /\ call[p].hook = "before_run_callback"
        /\ last[p].formatter = "returned"
        /\ thr[p][calls[p]].pc = "inserting"
        /\ thr[p][calls[p]].row["content"] = "[REDACTED]"

\* the worker threads inside insert_rows_json
Inserting == {id \in ThreadIds : T(id).pc = "inserting"}

\* C23: the lock guards the initialization only: whoever holds it is inside
\* the with block of _ensure_initialized_sync, no thread holds it while it
\* inserts, and a thread starts its insert whether or not the lock is taken and
\* whether or not another thread is inserting.
C23_InsertWithoutLock ==
    [][/\ client_init_lock' # Unlocked =>
             thr'[client_init_lock'[1]][client_init_lock'[2]].pc \in LockSection
       /\ \A id \in Inserting' : client_init_lock' # id
       /\ \A id \in ThreadIds :
             (T(id).pc = "check" /\ SinkReady) => ENABLED SyncLogCheck(id[1], id[2])]_vars

\* the threads of two invocations are inside insert_rows_json at the same time
C23_Witness ==
    \E a \in Inserting, b \in Inserting :
        /\ a[1] # b[1]
        /\ client_init_lock = Unlocked
        /\ SinkReady

\* the event type each dedicated hook stands for
DedicatedType ==
    [h \in Hooks \ {"on_event_callback"} |->
        CASE h = "on_user_message_callback" -> "USER_MESSAGE_RECEIVED"
          [] h = "before_run_callback" -> "INVOCATION_STARTING"
          [] h = "after_run_callback" -> "INVOCATION_COMPLETED"
          [] h = "before_agent_callback" -> "AGENT_STARTING"
          [] h = "after_agent_callback" -> "AGENT_COMPLETED"
          [] h = "before_model_callback" -> "LLM_REQUEST"
          [] h = "after_model_callback" -> "LLM_RESPONSE"
          [] h = "before_tool_callback" -> "TOOL_STARTING"
          [] h = "after_tool_callback" -> "TOOL_COMPLETED"
          [] h = "on_model_error_callback" -> "LLM_ERROR"
          [] h = "on_tool_error_callback" -> "TOOL_ERROR"]

\* the enumeration of event types
EventTypes ==
    {"USER_INPUT", "USER_MESSAGE_RECEIVED", "INVOCATION_STARTING", "INVOCATION_COMPLETED",
     "AGENT_STARTING", "AGENT_COMPLETED", "LLM_REQUEST", "LLM_RESPONSE", "TOOL_STARTING",
     "TOOL_COMPLETED", "LLM_ERROR", "TOOL_ERROR", "TOOL_CALL", "TOOL_RESULT",
     "MODEL_RESPONSE", "ERROR", "SYSTEM"}

\* C24: the record and the row of a dedicated hook carry that hook's own event
\* type, whatever its payload and whatever the formatter does, and the event
\* type of every row being inserted is one of the seventeen of the enumeration.
C24_FixedEventTypes ==
    /\ Cardinality(EventTypes) = 17
    /\ \A p \in Invocations :
          /\ (call[p].hook \in DOMAIN DedicatedType /\ pc[p] \in {"log", "await"}) =>
                event_dict[p]["event_type"] = DedicatedType[call[p].hook]
          /\ (call[p].hook # None /\ thr[p][calls[p]].pc = "inserting") =>
                /\ thr[p][calls[p]].row["event_type"] \in EventTypes
                /\ call[p].hook \in DOMAIN DedicatedType =>
                      thr[p][calls[p]].row["event_type"] = DedicatedType[call[p].hook]

\* the row of before_run_callback is being inserted as INVOCATION_STARTING
C24_Witness ==
    \E p \in Invocations :
        /\ call[p].hook = "before_run_callback"
        /\ thr[p][calls[p]].pc = "inserting"
        /\ thr[p][calls[p]].row["event_type"] = "INVOCATION_STARTING"
        /\ config.content_formatter = "raising"

\* the record hook call k of invocation p built from the arguments it was given
BuiltRecord(p, k) == BuildEventDict(call[p].hook, p, k, call[p].args).event_dict

\* C25: whatever the interleaving of the invocations, a row being inserted for
\* a hook call of invocation p carries the session, invocation and user of p,
\* the event type and error message that call built, and as content what that
\* call built or what the formatter made of it: nothing of another invocation.
C25_RowsAreSelfContained ==
    \A p \in Invocations :
        (pc[p] = "await" /\ thr[p][calls[p]].pc = "inserting") =>
            LET row == thr[p][calls[p]].row
                built == BuiltRecord(p, calls[p])
            IN  /\ row["session_id"] = <<"session", p>>
                /\ row["invocation_id"] = <<"invocation", p>>
                /\ row["user_id"] = <<"user", p>>
                /\ row["event_type"] = built["event_type"]
                /\ row["error_message"] =
                      (IF "error_message" \in DOMAIN built THEN built["error_message"] ELSE None)
                /\ row["content"] =
                      (IF "content" \notin DOMAIN built THEN None
                       ELSE IF last[p].formatter = "returned" THEN "[REDACTED]"
                       ELSE built["content"])

\* the rows of two invocations are being inserted at the same time, one an
\* LLM_REQUEST and the other an LLM_RESPONSE
C25_Witness ==
    \E p \in Invocations, q \in Invocations :
        /\ p # q
        /\ pc[p] = "await" /\ pc[q] = "await"
        /\ thr[p][calls[p]].pc = "inserting"
        /\ thr[q][calls[q]].pc = "inserting"
        /\ thr[p][calls[p]].row["event_type"] = "LLM_REQUEST"
        /\ thr[q][calls[q]].row["event_type"] = "LLM_RESPONSE"
        /\ thr[p][calls[p]].row["invocation_id"] # thr[q][calls[q]].row["invocation_id"]

\* C26: nothing orders the rows of different invocations: a worker thread
\* waits for nothing but the initialization lock, so whatever another
\* invocation is doing, a thread that wants the free lock can take it, a
\* thread past _ensure_initialized_sync can insert, and a row enters the sink in
\* the step in which its thread reaches insert_rows_json, behind the rows
\* already there.
C26_NoCrossInvocationOrder ==
    [][\A id \in ThreadIds :
          /\ (T(id).pc = "start" /\ client_init_lock = Unlocked) =>
                ENABLED EnsureAcquire(id[1], id[2])
          /\ T(id).pc = "check" => ENABLED SyncLogCheck(id[1], id[2])
          /\ T(id).pc = "inserting" => ENABLED InsertRowsJson(id[1], id[2])
          /\ (T(id).pc = "check" /\ TNext(id).pc = "inserting") =>
                inserts' = Append(inserts, id)
          /\ Len(inserts') >= Len(inserts)
          /\ SubSeq(inserts', 1, Len(inserts)) = inserts]_vars

\* a row of invocation b was inserted after the LLM_REQUEST row of invocation
\* a and before its LLM_RESPONSE row, which is being inserted now
C26_Witness ==
    \E a \in Invocations, b \in Invocations :
        /\ a # b
        /\ Len(inserts) = 3
        /\ inserts = << <<a, 1>>, <<b, 1>>, <<a, 2>> >>
        /\ TurnHook(1) = "before_model_callback"
        /\ thr[a][2].pc = "inserting"
        /\ thr[a][2].row["event_type"] = "LLM_RESPONSE"
        /\ last[b].event_type = "LLM_REQUEST"

\* the summary of one part: that of the first kind the part has, in the order
\* text, function call, function response, code execution result, other
PartSummary(part) ==
    LET kinds == << [has |-> part.text \notin {None, ""},
                     summary |-> RenderedText(Truncated200(Trimmed(part.text)))],
                    [has |-> part.function_call # None,
                     summary |-> "function_call: " \o part.function_call],
                    [has |-> part.function_response # None,
                     summary |-> "function_response: " \o part.function_response],
                    [has |-> part.code_execution_result # None,
                     summary |-> "code_execution_result"],
                    [has |-> TRUE, summary |-> "other_part"] >>
        first == CHOOSE i \in 1 .. 5 : kinds[i].has /\ \A j \in 1 .. (i - 1) : ~kinds[j].has
    IN  kinds[first].summary

\* the summaries of the first n parts, ' | ' between them
RECURSIVE BarJoined(_, _)
BarJoined(parts, n) ==
    IF n = 1 THEN PartSummary(parts[1])
    ELSE BarJoined(parts, n - 1) \o " | " \o PartSummary(parts[n])

\* C27: a content of several parts is rendered as the summaries of its parts
\* in their order with ' | ' between them, each part summarized by the first
\* kind it has in the order text, function call, function response, code
\* execution result, other; the rendering of a function call or response holds
\* its name and not its args or response; no content and a content without
\* parts are rendered as 'None'.
C27_MultiPartRendering ==
    probe.fn = "_format_content(parts)" =>
        /\ (probe.input.absent \/ probe.input.parts = <<>>) => probe.out = "None"
        /\ (~probe.input.absent /\ probe.input.parts # <<>>) =>
              probe.out = BarJoined(probe.input.parts, Len(probe.input.parts))
        /\ ~Contains(probe.out, CallArgs)
        /\ ~Contains(probe.out, ResponsePayload)

\* a function response followed by a part with every field set was rendered
\* as the response's name and the part's text
C27_Witness ==
    /\ probe.fn = "_format_content(parts)"
    /\ probe.input = Content(<<ResponsePart("get_weather"), Part("hi", "f", "g", "OUTCOME_OK")>>)
    /\ probe.out = "function_response: get_weather | text: 'hi'"

\* C28: once the initialization has succeeded the sink stays as it is: in
\* every later step, whatever hook is called and however an insert ends,
\* _init_succeeded stays true and _bq_client stays the same client object.
C28_SinkNeverTornDown ==
    [][SinkReady => (init_succeeded' /\ bq_client' = bq_client /\ bq_client' # None)]_vars

\* with the sink ready one insert has raised, one has come back with row
\* errors, and the client is still the first and only one made
C28_Witness ==
    \E a \in ThreadIds, b \in ThreadIds :
        /\ SinkReady
        /\ T(a).pc \in {"raised_google", "raised_other"}
        /\ T(b).pc = "finished_errors"
        /\ bq_client = Client(1)
        /\ initCount = 1

\* C29: a writer that asks for the sink while another is inside the
\* initialization waits for the lock, and leaves _ensure_initialized_sync only
\* when no initialization is under way, so that its readiness test sees the
\* outcome of the one attempt: a thread drops its record only when that attempt
\* has failed, and when the attempt succeeded every thread that got as far as
\* the readiness test inserts.
C29_NoRecordLostToInitRace ==
    [][\A id \in ThreadIds :
          /\ (T(id).pc = "start" /\ client_init_lock # Unlocked) => TNext(id).pc = "start"
          /\ (T(id).pc # "check" /\ TNext(id).pc = "check") =>
                /\ init_done'
                /\ \A other \in ThreadIds : TNext(other).pc \notin {"mark"} \cup InitBody
          /\ (T(id).pc = "check" /\ TNext(id).pc # "check") =>
                IF init_succeeded
                THEN TNext(id).pc = "inserting" /\ InsertStarted(id[1], id[2])'
                ELSE TNext(id).pc = "finished" /\ InitFailed /\ InitFailed']_vars

\* a first-time writer is held at the lock while the first-time writer of the
\* other invocation is at the last step of an initialization
C29_Witness ==
    \E a \in ThreadIds, b \in ThreadIds :
        /\ a[1] # b[1]
        /\ a[2] = 1 /\ b[2] = 1
        /\ T(a).pc = "table"
        /\ client_init_lock = a
        /\ T(b).pc = "start"
        /\ ~ENABLED Thread(b[1], b[2])

\* C30: in every state _init_succeeded implies _init_done and a client, and a
\* thread is inside insert_rows_json only while _init_succeeded is true and
\* the client is there; an initialization that made the client and then failed
\* leaves the flag false, and no insert follows it.
C30_SucceededImpliesReady ==
    [][/\ init_succeeded' => (init_done' /\ bq_client' # None)
       /\ \A id \in ThreadIds :
             TNext(id).pc = "inserting" => (init_succeeded' /\ bq_client' # None)
       /\ (init_done /\ bq_client # None /\ ~init_succeeded /\ ~Initializing) =>
             /\ inserts' = inserts
             /\ ~init_succeeded']_vars

\* the initialization made the client and then failed: the writer that ran it
\* and a later one have both ended without an insert
C30_Witness ==
    \E a \in ThreadIds, b \in ThreadIds :
        /\ a # b
        /\ bq_client = Client(1)
        /\ ~init_succeeded
        /\ init_done
        /\ T(a).pc \in {"finished", "joined"}
        /\ T(b).pc = "finished"
        /\ inserts = <<>>

\* C31: when every external call returns or raises and the coroutines and
\* threads that can go on are scheduled, every hook call comes to its end
\* (it returns or raises), every writer waiting for the initialization lock
\* gets past it, and whoever takes the lock gives it up again, also when the
\* initialization fails or raises.
C31_EveryHookCallFinishes ==
    /\ \A p \in Invocations : (pc[p] \in {"log", "await"}) ~> (pc[p] \in {"idle", "aborted"})
    /\ \A id \in ThreadIds : (T(id).pc = "start") ~> (T(id).pc # "start")
    /\ (client_init_lock # Unlocked) ~> (client_init_lock = Unlocked)

\* the initialization raised out of the writer that ran it, and the writer of
\* the other invocation holds the lock after it
C31_Witness ==
    \E a \in ThreadIds, b \in ThreadIds :
        /\ a[1] # b[1]
        /\ T(a).pc = "raised_other"
        /\ ~InsertStarted(a[1], a[2])
        /\ T(b).pc = "locked"
        /\ client_init_lock = b

====
